---- MODULE Spec2Model ----
(***************************************************************************)
(* Model of internal/features/step_definitions.go: the acceptance-test     *)
(* step library of cli53.  Four parts:                                     *)
(*   - the argument tokenizer safeSplit, a pure function on strings        *)
(*     (strings are sequences of one-character strings);                   *)
(*   - the scenario life cycle: the Before/After hooks and the steps that  *)
(*     touch the package variables cleanupIds and runOutput, run against   *)
(*     an abstract Route 53 (hosted zones with their record sets);         *)
(*   - the zone-file comparison prepareZoneFile / compareDomains, pure     *)
(*     functions on blobs (sequences of one-character strings);            *)
(*   - uniqueReference, whose seeding is guarded by a sync.Once, called    *)
(*     by concurrent goroutines.                                           *)
(***************************************************************************)
EXTENDS Integers, Sequences, FiniteSets, TLC

VARIABLES
    pc,          \* "idle" between scenarios, "steps" inside one, "teardown" inside the After hook, "aborted" after log.Fatalf or a panic
    step,        \* the step dispatched last in this scenario: its captures and its handler's locals
    cleanupIds,  \* var cleanupIds []string
    runOutput,   \* var runOutput string
    zones,       \* the provider: per zone id its status, name and non-default record sets
    nextId,      \* the id the provider hands out at the next zone creation
    tdIdx,       \* After hook: index of the range loop over cleanupIds
    tdStage,     \* After hook: the provider call cleanupDomain makes next
    changes,     \* cleanupDomain: the change batch built from the listing
    tdLog,       \* the cleanupDomain invocations of the latest After hook, with the outcome of each provider call
    input,       \* tokenizer: the string handed to safeSplit
    tokens,      \* tokenizer: the value safeSplit returned
    tokPc,       \* tokenizer: "off", "ready" or "done"
    expected,    \* compareDomains: the blob of the expected zone file
    actual,      \* compareDomains: the blob the export printed
    includeAuth, \* compareDomains: the flag of the same name
    mexpected,   \* compareDomains: prepareZoneFile(expected, includeAuth)
    mactual,     \* compareDomains: prepareZoneFile(actual, includeAuth), before the loops
    errors,      \* compareDomains: the returned report, one element per message
    zfPc,        \* comparison: "off", "ready" or "done"
    upc,         \* uniqueReference: the position of each goroutine
    calls,       \* uniqueReference: the calls each goroutine has made
    done,        \* seeded (sync.Once): its done flag
    mu,          \* seeded (sync.Once): the goroutine holding its mutex, 0 when free
    seeds,       \* the number of rand.Seed calls of the process
    rng,         \* math/rand's global source: "default", "seeding" or "seeded"
    drawn        \* per goroutine, the state of the source when its latest rand.Int() drew

vars == <<pc, step, cleanupIds, runOutput,
          zones, nextId, tdIdx, tdStage, changes, tdLog, input, tokens, tokPc,
          expected, actual, includeAuth, mexpected, mactual, errors, zfPc,
          upc, calls, done, mu, seeds, rng, drawn>>

(***************************************************************************)
(* Bounds                                                                  *)
(***************************************************************************)
MaxLen == 4          \* longest enumerated tokenizer input
MaxZones == 2        \* zone creations per run (by the Given step or by the CLI)
MaxReg == 2          \* longest cleanupIds
MaxLines == 2        \* most lines of an enumerated zone-file blob
MaxProcs == 3        \* goroutines calling uniqueReference
MaxCalls == 2        \* calls of uniqueReference per goroutine

(***************************************************************************)
(* Strings                                                                 *)
(***************************************************************************)
SQ == "'"
DQ == "\""
SP == " "
Chars == {"a", SP, SQ, DQ}

\* strings.HasPrefix(i, c) for a one-character c
HasPrefix(i, c) == Len(i) > 0 /\ i[1] = c

\* strings.HasSuffix(i, c) for a one-character c
HasSuffix(i, c) == Len(i) > 0 /\ i[Len(i)] = c

\* strings.TrimPrefix(i, c)
TrimPrefix(i, c) == IF HasPrefix(i, c) THEN SubSeq(i, 2, Len(i)) ELSE i

\* strings.TrimSuffix(i, c)
TrimSuffix(i, c) == IF HasSuffix(i, c) THEN SubSeq(i, 1, Len(i) - 1) ELSE i

\* index of the first space of s, 0 when it has none
FirstSpace(s) ==
    IF \E k \in 1..Len(s) : s[k] = SP
    THEN CHOOSE k \in 1..Len(s) : s[k] = SP /\ \A j \in 1..(k - 1) : s[j] # SP
    ELSE 0

\* strings.Split(s, " "): the fragments between single spaces; one (empty)
\* fragment for the empty string
RECURSIVE Split(_)
Split(s) ==
    IF FirstSpace(s) = 0
    THEN <<s>>
    ELSE <<SubSeq(s, 1, FirstSpace(s) - 1)>> \o Split(SubSeq(s, FirstSpace(s) + 1, Len(s)))

\* safeSplit with a final "append the open block" after the loop
RECURSIVE SplitLoopEmit(_, _, _, _, _)
SplitLoopEmit(split, k, result, inquote, block) ==
    IF k > Len(split) THEN (IF inquote = "" THEN result ELSE Append(result, block))
    ELSE LET i == split[k] IN
         IF inquote = ""
         THEN IF HasPrefix(i, SQ) \/ HasPrefix(i, DQ)
              THEN SplitLoopEmit(split, k + 1, result, i[1], TrimPrefix(i, i[1]) \o <<SP>>)
              ELSE SplitLoopEmit(split, k + 1, Append(result, i), inquote, block)
         ELSE IF ~HasSuffix(i, inquote)
              THEN SplitLoopEmit(split, k + 1, result, inquote, block \o i \o <<SP>>)
              ELSE SplitLoopEmit(split, k + 1, Append(result, block \o TrimSuffix(i, inquote)), "", <<>>)

\* the body of safeSplit's range loop, from fragment k on; inquote is "" outside
\* a quoted span.  The function returns result when the fragments are exhausted:
\* a block still being accumulated is not appended.
RECURSIVE SplitLoop(_, _, _, _, _)
SplitLoop(split, k, result, inquote, block) ==
    IF k > Len(split) THEN result
    ELSE LET i == split[k] IN
         IF inquote = ""
         THEN IF HasPrefix(i, SQ) \/ HasPrefix(i, DQ)
              THEN SplitLoop(split, k + 1, result, i[1], TrimPrefix(i, i[1]) \o <<SP>>)
              ELSE SplitLoop(split, k + 1, Append(result, i), inquote, block)
         ELSE IF ~HasSuffix(i, inquote)
              THEN SplitLoop(split, k + 1, result, inquote, block \o i \o <<SP>>)
              ELSE SplitLoop(split, k + 1, Append(result, block \o TrimSuffix(i, inquote)), "", <<>>)

safeSplit(s) == SplitLoop(Split(s), 1, <<>>, "", <<>>)

(***************************************************************************)
(* Zone files: prepareZoneFile and compareDomains                          *)
(***************************************************************************)
TAB == "\t"
NL == "\n"

OriginDirective == <<"$", "O", "R", "I", "G", "I", "N">>   \* "$ORIGIN"
NSToken == <<SP, "N", "S", SP>>                              \* " NS "
SOAToken == <<SP, "S", "O", "A", SP>>                        \* " SOA "

\* a Replace that leaves the string as it is
ReplaceNone(s, old, new) == s

\* strings.Replace(s, old, new, -1) for one-character old and new
Replace(s, old, new) == [k \in 1..Len(s) |-> IF s[k] = old THEN new ELSE s[k]]

\* strings.HasPrefix(s, prefix) for a string prefix
HasPrefixStr(s, prefix) == Len(s) >= Len(prefix) /\ SubSeq(s, 1, Len(prefix)) = prefix

\* strings.Contains(s, substr) for a non-empty substr
Contains(s, substr) ==
    \E k \in 1..(Len(s) - Len(substr) + 1) : SubSeq(s, k, k + Len(substr) - 1) = substr

\* index of the first newline of s at or after position k, 0 when there is none
RECURSIVE FirstNewlineFrom(_, _)
FirstNewlineFrom(s, k) ==
    IF k > Len(s) THEN 0
    ELSE IF s[k] = NL THEN k
    ELSE FirstNewlineFrom(s, k + 1)

FirstNewline(s) == FirstNewlineFrom(s, 1)

\* strings.Split(s, "\n"): the lines between newlines; one (empty) line for
\* the empty string, and an empty last line for a string that ends with "\n"
RECURSIVE SplitLines(_)
SplitLines(s) ==
    LET n == FirstNewline(s)
    IN IF n = 0
       THEN <<s>>
       ELSE <<SubSeq(s, 1, n - 1)>> \o SplitLines(SubSeq(s, n + 1, Len(s)))

\* a loop body that skips NS and SOA lines whatever the flag
skipLineAlways(line, auth) ==
    \/ HasPrefixStr(line, OriginDirective)
    \/ Contains(line, NSToken) \/ Contains(line, SOAToken)

\* lines 277-282: the lines the range loop of prepareZoneFile skips
skipLine(line, auth) ==
    \/ HasPrefixStr(line, OriginDirective)
    \/ ~auth /\ (Contains(line, NSToken) \/ Contains(line, SOAToken))

\* a prepareZoneFile that leaves blank lines out
prepareZoneFileNonBlank(b, auth) ==
    LET s == Replace(b, TAB, SP)
        lines == SplitLines(s)
    IN {lines[k] : k \in {j \in 1..Len(lines) : ~skipLine(lines[j], auth) /\ lines[j] # <<>>}}

\* prepareZoneFile(b, includeAuth): the map's key set
prepareZoneFile(b, auth) ==
    LET s == Replace(b, TAB, SP)
        lines == SplitLines(s)
    IN {lines[k] : k \in {j \in 1..Len(lines) : ~skipLine(lines[j], auth)}}

\* the orders in which a range loop may visit the keys of the map S
Orders(S) ==
    {o \in [1..Cardinality(S) -> S] : \A i, j \in 1..Cardinality(S) : o[i] = o[j] => i = j}

\* fmt.Sprintf("Expected record '%s' missing\n", record)
Missing(record) == <<"Expected record '", record, "' missing\n">>

\* fmt.Sprintf("Unexpected record '%s' present\n", record)
Unexpected(record) == <<"Unexpected record '", record, "' present\n">>

\* lines 293-299, from the k-th record of the range over mexpected on; m is
\* mactual, errs the report so far (one element per message appended); the
\* result is <<mactual, errors>> after the loop
RECURSIVE ExpectedLoop(_, _, _, _)
ExpectedLoop(order, k, m, errs) ==
    IF k > Len(order) THEN <<m, errs>>
    ELSE IF order[k] \in m
         THEN ExpectedLoop(order, k + 1, m \ {order[k]}, errs)
         ELSE ExpectedLoop(order, k + 1, m, Append(errs, Missing(order[k])))

\* lines 300-302, from the k-th record of the range over what is left of mactual
RECURSIVE ActualLoop(_, _, _)
ActualLoop(order, k, errs) ==
    IF k > Len(order) THEN errs
    ELSE ActualLoop(order, k + 1, Append(errs, Unexpected(order[k])))

\* a compareDomains without the second loop
compareDomainsOneWay(e, a, auth) ==
    LET me == prepareZoneFile(e, auth)
        ma == prepareZoneFile(a, auth)
    IN {ExpectedLoop(o, 1, ma, <<>>)[2] : o \in Orders(me)}

\* compareDomains(expected, actual, includeAuth): the reports it may return,
\* one for each order in which the two range loops may visit the maps
compareDomains(e, a, auth) ==
    LET me == prepareZoneFile(e, auth)
        ma == prepareZoneFile(a, auth)
    IN UNION {LET r == ExpectedLoop(o, 1, ma, <<>>)
              IN {ActualLoop(o2, 1, r[2]) : o2 \in Orders(r[1])}
              : o \in Orders(me)}

\* the lines the enumerated blobs are made of
OriginLine == OriginDirective \o <<SP, "x", ".">>       \* $ORIGIN x.
NSLine == <<"x", SP, "N", "S", SP, "n">>                 \* x NS n
SOATabLine == <<"x", TAB, "S", "O", "A", TAB, "n">>
ALine == <<"a", SP, "A", SP, "1">>                       \* a A 1
ATabLine == <<"a", TAB, "A", TAB, "1">>
BlankLine == <<>>
ZoneLines == {OriginLine, NSLine, SOATabLine, ALine, ATabLine, BlankLine}

\* the lines joined by newlines
RECURSIVE JoinLines(_)
JoinLines(lines) ==
    IF Len(lines) = 0 THEN <<>>
    ELSE IF Len(lines) = 1 THEN lines[1]
    ELSE lines[1] \o <<NL>> \o JoinLines(Tail(lines))

\* an origin directive, an NS line and an A line
ZoneExample == JoinLines(<<OriginLine, NSLine, ALine>>)

Blobs == {JoinLines(ls) : ls \in UNION {[1..m -> ZoneLines] : m \in 1..MaxLines}} \cup {ZoneExample}

(***************************************************************************)
(* The provider (Route 53) and the values the steps range over             *)
(***************************************************************************)
Ids == 1..MaxZones
Names == {"x", "y"}              \* zone names, after the $domain substitution
AuthTypes == {"NS", "SOA"}       \* the record sets every live zone has
ExtraTypes == {"A"}              \* record sets the CLI may add
Outputs == {"o1", "o2"}          \* combined outputs of the external command
Effects == {"none", "create", "delete", "rrcreate"}   \* what the external command does at the provider
Commands == {<<"a", SP, SQ, "a", SP, "a", SQ>>, <<SQ, "a">>}   \* command lines of "I run" steps

Counts == {2}                    \* record counts of "has N records" steps
Records == {<<"x", SP, "A">>}    \* records of "has record" steps
ExportFiles == {ALine, ATabLine, JoinLines(<<ALine, NSLine>>)}        \* expected files and export outputs

NoZone == [status |-> "none", name |-> "", recs |-> {}]
GoneZone == [status |-> "gone", name |-> "", recs |-> {}]

\* kind and name: the step and the zone name it is about; err: the handler
\* called T.Errorf
NoStep == [kind |-> "none", name |-> "", err |-> FALSE]
StepOf(kind, name, err) == [kind |-> kind, name |-> name, err |-> err]

Live(z) == zones[z].status = "live"

\* cli53.ListAllRecordSets on a live zone: the types of its record sets
ListAllRecordSets(z) == AuthTypes \cup zones[z].recs

\* a lookup that never finds a zone
domainIdNone(name) == {0}

\* domainId: the ids ListHostedZones may put first among the zones called
\* name; 0 stands for the empty string (no zone of that name)
domainId(name) ==
    IF \E z \in Ids : Live(z) /\ zones[z].name = name
    THEN {z \in Ids : Live(z) /\ zones[z].name = name}
    ELSE {0}

\* fatalIfErr(err): log.Fatalf ends the process, otherwise the caller goes on
fatalIfErr(err, next) == IF err THEN "aborted" ELSE next

\* a cleanup failure treated like fatalIfErr
warnIfErrFatal(err, next) == IF err THEN "aborted" ELSE next

\* the "Warning: cleanup failed" branches of cleanupDomain: print and go on
warnIfErr(err, next) == next

\* a step that forgets to record the id
registerNone(ids, id) == ids

\* cleanupIds = append(cleanupIds, id)
register(ids, id) == Append(ids, id)

\* the "is deleted" step without the reset of cleanupIds
dropCleanupIdsKept(ids) == ids

\* cleanupIds = []string{} in the "is deleted" step
dropCleanupIds(ids) == <<>>

\* the After hook without the final reset of cleanupIds
resetCleanupIdsKept(ids) == ids

\* cleanupIds = []string{} at the end of the After hook
resetCleanupIds(ids) == <<>>

\* runOutput assigned whatever err is
storeOutputAlways(old, out, err) == out

\* runOutput after ps.CombinedOutput() returned (out, err)
storeOutput(old, out, err) == IF err THEN old ELSE out

\* a batch with a change for every listed record set
deleteChangesAll(rrsets) == rrsets

\* the changes cleanupDomain builds from a listing
deleteChanges(rrsets) == {t \in rrsets : t # "NS" /\ t # "SOA"}

(***************************************************************************)
(* Initial state: no scenario has run, the provider holds no test zone     *)
(***************************************************************************)
LifecycleInit ==
    /\ pc = "idle"
    /\ step = NoStep
    /\ cleanupIds = <<>>
    /\ runOutput = ""
    /\ zones = [z \in Ids |-> NoZone]
    /\ nextId = 1
    /\ tdIdx = 0
    /\ tdStage = "none"
    /\ changes = {}
    /\ tdLog = <<>>

\* no comparison is under way
ZoneOff ==
    /\ expected = <<>>
    /\ actual = <<>>
    /\ includeAuth = FALSE
    /\ mexpected = {}
    /\ mactual = {}
    /\ errors = <<>>
    /\ zfPc = "off"

Procs == 1..MaxProcs

\* the goroutines that call uniqueReference are not modelled
SeedOff ==
    /\ upc = [p \in Procs |-> "off"]
    /\ calls = [p \in Procs |-> 0]
    /\ done = 0
    /\ mu = 0
    /\ seeds = 0
    /\ rng = "default"
    /\ drawn = [p \in Procs |-> "none"]

Init ==
    /\ LifecycleInit
    /\ input = <<>>
    /\ tokens = <<>>
    /\ tokPc = "off"
    /\ ZoneOff
    /\ SeedOff

tokVars == <<input, tokens, tokPc>>
zoneVars == <<expected, actual, includeAuth, mexpected, mactual, errors, zfPc>>
seedVars == <<upc, calls, done, mu, seeds, rng, drawn>>
pureVars == <<tokVars, zoneVars, seedVars>>
tdVars == <<tdIdx, tdStage, changes, tdLog>>
provVars == <<zones, nextId>>

\* the process ends inside the handler of a step: log.Fatalf or a runtime panic
Abort(kind) ==
    /\ pc' = "aborted"
    /\ step' = StepOf(kind, "", FALSE)
    /\ UNCHANGED <<cleanupIds, runOutput, provVars, tdVars, pureVars>>

InStep == pc = "steps"

(***************************************************************************)
(* Hooks and steps                                                         *)
(***************************************************************************)
\* Before(""): a new scenario starts
Before ==
    /\ pc = "idle"
    /\ pc' = "steps"
    /\ step' = NoStep
    /\ tdLog' = <<>>
    /\ UNCHANGED <<cleanupIds, runOutput, provVars, tdIdx, tdStage, changes, pureVars>>

\* Given I have a domain "name"
GivenDomain(name) ==
    /\ InStep
    /\ nextId <= MaxZones
    /\ Len(cleanupIds) < MaxReg
    /\ \E err \in BOOLEAN :
         IF fatalIfErr(err, "steps") = "aborted"
         THEN Abort("given")
         ELSE /\ zones' = [zones EXCEPT ![nextId] = [status |-> "live", name |-> name, recs |-> {}]]
              /\ nextId' = nextId + 1
              /\ cleanupIds' = register(cleanupIds, nextId)
              /\ step' = StepOf("given", name, FALSE)
              /\ UNCHANGED <<pc, runOutput, tdVars, pureVars>>

\* what the external command does at the provider
CliEffect(eff, name) ==
    \/ /\ eff = "none"
       /\ UNCHANGED provVars
    \/ /\ eff = "create"
       /\ nextId <= MaxZones
       /\ zones' = [zones EXCEPT ![nextId] = [status |-> "live", name |-> name, recs |-> {}]]
       /\ nextId' = nextId + 1
    \/ /\ eff = "delete"
       /\ \E z \in Ids :
            /\ Live(z) /\ zones[z].name = name
            /\ zones' = [zones EXCEPT ![z] = GoneZone]
       /\ UNCHANGED nextId
    \/ /\ eff = "rrcreate"
       /\ \E z \in Ids, t \in ExtraTypes :
            /\ Live(z) /\ zones[z].name = name /\ t \notin zones[z].recs
            /\ zones' = [zones EXCEPT ![z].recs = @ \cup {t}]
       /\ UNCHANGED nextId

\* lines 166-172: the program args[0] runs with the other tokens, acts on the
\* zones called name and ends with (out, err)
RunCommand(eff, name, err, out) ==
    /\ CliEffect(eff, name)
    /\ runOutput' = storeOutput(runOutput, out, err)
    /\ step' = StepOf("run", name, err)
    /\ UNCHANGED <<pc, cleanupIds, tdVars, pureVars>>

\* When I run "cmd": the command line is tokenized; with no token at all,
\* args[0] is an index out of range and the process panics
WhenRun(cmd) ==
    /\ InStep
    /\ IF safeSplit(cmd) = <<>>
       THEN Abort("run")
       ELSE \E eff \in Effects, name \in Names, err \in BOOLEAN, out \in Outputs :
              RunCommand(eff, name, err, out)

\* Then the domain "name" is created
ThenCreated(name) ==
    /\ InStep
    /\ \E err \in BOOLEAN :
         IF fatalIfErr(err, "steps") = "aborted"
         THEN Abort("created")
         ELSE \E id \in domainId(name) :
              /\ id # 0 => Len(cleanupIds) < MaxReg
              /\ cleanupIds' = IF id = 0 THEN cleanupIds ELSE register(cleanupIds, id)
              /\ step' = StepOf("created", name, id = 0)
              /\ UNCHANGED <<pc, runOutput, provVars, tdVars, pureVars>>

\* Then the domain "name" is deleted
ThenDeleted(name) ==
    /\ InStep
    /\ \E err \in BOOLEAN :
         IF fatalIfErr(err, "steps") = "aborted"
         THEN Abort("deleted")
         ELSE \E id \in domainId(name) :
              /\ id # 0 => Len(cleanupIds) < MaxReg
              /\ cleanupIds' = IF id = 0 THEN dropCleanupIds(cleanupIds) ELSE register(cleanupIds, id)
              /\ step' = StepOf("deleted", name, id # 0)
              /\ UNCHANGED <<pc, runOutput, provVars, tdVars, pureVars>>

\* an entry of tdLog: cleanupDomain was invoked for id; list, batch and zone
\* are the outcomes of its three provider calls ("none": not issued)
LogEntry(id, list) == [id |-> id, list |-> list, batch |-> "none", zone |-> "none"]

Outcome(err) == IF err THEN "fail" ELSE "ok"

\* After(""): the steps of the scenario are over and the hook is entered; with
\* nothing registered it returns at once, otherwise it starts the range loop
\* over cleanupIds
After ==
    /\ pc = "steps"
    /\ step' = NoStep
    /\ tdLog' = <<>>
    /\ changes' = {}
    /\ IF Len(cleanupIds) > 0
       THEN /\ pc' = "teardown"
            /\ tdIdx' = 1
            /\ tdStage' = "list"
       ELSE /\ pc' = "idle"
            /\ tdIdx' = 0
            /\ tdStage' = "none"
    /\ UNCHANGED <<cleanupIds, runOutput, provVars, pureVars>>

\* cleanupDomain, lines 64-75: list the record sets of the zone and build the
\* change batch; the listing of a zone that is not live fails
CleanupList(e) ==
    /\ pc = "teardown" /\ tdStage = "list"
    /\ LET id == cleanupIds[tdIdx]
           err == e \/ ~Live(id)
       IN /\ tdLog' = Append(tdLog, LogEntry(id, Outcome(err)))
          /\ pc' = fatalIfErr(err, "teardown")
          /\ IF err
             THEN UNCHANGED <<changes, tdStage>>
             ELSE /\ changes' = deleteChanges(ListAllRecordSets(id))
                  /\ tdStage' = IF Cardinality(changes') > 0 THEN "batch" ELSE "zone"
    /\ UNCHANGED <<step, cleanupIds, runOutput, provVars, tdIdx, pureVars>>

\* cleanupDomain, lines 77-88: submit the change batch
CleanupBatch(err) ==
    /\ pc = "teardown" /\ tdStage = "batch"
    /\ LET id == cleanupIds[tdIdx]
       IN /\ zones' = IF err THEN zones ELSE [zones EXCEPT ![id].recs = @ \ changes]
          /\ tdLog' = [tdLog EXCEPT ![Len(tdLog)].batch = Outcome(err)]
          /\ pc' = warnIfErr(err, "teardown")
          /\ tdStage' = "zone"
    /\ UNCHANGED <<step, cleanupIds, runOutput, nextId, tdIdx, changes, pureVars>>

\* cleanupDomain, lines 90-94, and the end of the loop body: delete the zone
\* (the provider refuses a zone that is gone or still holds non-default record
\* sets), then go to the next id or, after the last, reset cleanupIds
CleanupZone(e) ==
    /\ pc = "teardown" /\ tdStage = "zone"
    /\ LET id == cleanupIds[tdIdx]
           err == e \/ ~Live(id) \/ zones[id].recs # {}
       IN /\ zones' = IF err THEN zones ELSE [zones EXCEPT ![id] = GoneZone]
          /\ tdLog' = [tdLog EXCEPT ![Len(tdLog)].zone = Outcome(err)]
          /\ IF warnIfErr(err, "teardown") = "aborted"
             THEN /\ pc' = "aborted"
                  /\ UNCHANGED <<tdIdx, tdStage, cleanupIds>>
             ELSE IF tdIdx < Len(cleanupIds)
                  THEN /\ tdIdx' = tdIdx + 1
                       /\ tdStage' = "list"
                       /\ UNCHANGED <<pc, cleanupIds>>
                  ELSE /\ cleanupIds' = resetCleanupIds(cleanupIds)
                       /\ pc' = "idle"
                       /\ tdIdx' = 0
                       /\ tdStage' = "none"
    /\ UNCHANGED <<step, runOutput, nextId, changes, pureVars>>

\* the hooks and the steps that assign cleanupIds or runOutput or act on the
\* provider (NextAll below adds the steps that only assert)
Next ==
    \/ Before
    \/ \E name \in Names : GivenDomain(name)
    \/ \E cmd \in Commands : WhenRun(cmd)
    \/ \E name \in Names : ThenCreated(name)
    \/ \E name \in Names : ThenDeleted(name)
    \/ After
    \/ \E e \in BOOLEAN : CleanupList(e)
    \/ \E err \in BOOLEAN : CleanupBatch(err)
    \/ \E e \in BOOLEAN : CleanupZone(e)

Spec == Init /\ [][Next]_vars

(***************************************************************************)
(* The end-to-end feature: Given a domain, the domain is created, run a    *)
(* command, the domain is deleted, every step about the same name.  The    *)
(* framework dispatches the steps in this order; the After hook follows    *)
(* the last step, or an earlier one when the scenario is cut short.        *)
(***************************************************************************)
NextE2E ==
    \/ Before
    \/ \E name \in Names : step.kind = "none" /\ GivenDomain(name)
    \/ \E name \in Names : step.kind = "given" /\ step.name = name /\ ThenCreated(name)
    \/ \E cmd \in Commands :
         /\ step.kind = "created"
         /\ WhenRun(cmd)
         /\ pc' = "steps" => step'.name = step.name
    \/ \E name \in Names : step.kind = "run" /\ step.name = name /\ ThenDeleted(name)
    \/ After
    \/ \E e \in BOOLEAN : CleanupList(e)
    \/ \E err \in BOOLEAN : CleanupBatch(err)
    \/ \E e \in BOOLEAN : CleanupZone(e)

SpecE2E == Init /\ [][NextE2E]_vars

(***************************************************************************)
(* The assertion steps, which only look at the provider, at a file or at   *)
(* runOutput, and the scenarios that use every step of the library         *)
(***************************************************************************)
\* an assertion step that also empties cleanupIds
VerdictReset(failed) ==
    /\ step' = StepOf("assert", "", failed)
    /\ cleanupIds' = <<>>
    /\ UNCHANGED <<pc, runOutput, provVars, tdVars, pureVars>>

\* the end of an assertion step: T.Errorf when failed, and nothing assigned
Verdict(failed) ==
    /\ step' = StepOf("assert", "", failed)
    /\ UNCHANGED <<pc, cleanupIds, runOutput, provVars, tdVars, pureVars>>

\* id := domainId(name); rrsets, err := cli53.ListAllRecordSets(r53, id);
\* fatalIfErr(err): the zone ids the handler may go on with.  A failure of
\* either provider call ends the process, and so does the listing for the id
\* "" that domainId returns for an unknown name.
Listed(name, err) ==
    IF fatalIfErr(err, "steps") = "aborted" THEN {} ELSE domainId(name) \ {0}

\* Then the domain "name" has n records
ThenHasRecords(name, n) ==
    /\ InStep
    /\ \E err \in BOOLEAN :
         IF Listed(name, err) = {}
         THEN Abort("assert")
         ELSE \E id \in Listed(name, err) : Verdict(n # Cardinality(ListAllRecordSets(id)))

\* rr.String() for the record set of type t of zone z: tab-separated fields
BindLine(z, t) == <<zones[z].name, TAB, t>>

\* hasRecord, lines 258-268, on the listing of zone id
hasRecord(id, record) ==
    \E t \in ListAllRecordSets(id) : record = Replace(BindLine(id, t), TAB, SP)

\* Then the domain "name" has record "record"
ThenHasRecord(name, record) ==
    /\ InStep
    /\ \E err \in BOOLEAN :
         IF Listed(name, err) = {}
         THEN Abort("assert")
         ELSE \E id \in Listed(name, err) : Verdict(~hasRecord(id, record))

\* Then the domain "name" doesn't have record "record"
ThenNoRecord(name, record) ==
    /\ InStep
    /\ \E err \in BOOLEAN :
         IF Listed(name, err) = {}
         THEN Abort("assert")
         ELSE \E id \in Listed(name, err) : Verdict(hasRecord(id, record))

\* len(errors) > 0 for the reports compareDomains may return on an expected
\* file and an export output
ExportVerdicts ==
    {errs # <<>> : errs \in UNION {compareDomains(e, a, auth) :
                                     e \in ExportFiles, a \in ExportFiles, auth \in BOOLEAN}}

\* Then the domain "name" export matches file: the export (a read-only
\* command) exits non-zero, as it does when no zone has the name, or the file
\* cannot be read, or the two are compared
ThenExportMatches(name) ==
    /\ InStep
    /\ \E e \in BOOLEAN :
         LET err == e \/ domainId(name) = {0}
         IN IF err
            THEN Verdict(TRUE)
            ELSE \E ferr \in BOOLEAN :
                   IF fatalIfErr(ferr, "steps") = "aborted"
                   THEN Abort("assert")
                   ELSE \E failed \in ExportVerdicts : Verdict(failed)

\* strings.Contains(runOutput, s) for an output s: no output is part of
\* another, and the empty runOutput holds none
ContainsOutput(out, s) == out = s

\* Then the output contains "s"
ThenOutputContains(s) ==
    /\ InStep
    /\ Verdict(~ContainsOutput(runOutput, s))

NextAll ==
    \/ Next
    \/ \E name \in Names, n \in Counts : ThenHasRecords(name, n)
    \/ \E name \in Names, record \in Records : ThenHasRecord(name, record)
    \/ \E name \in Names, record \in Records : ThenNoRecord(name, record)
    \/ \E name \in Names : ThenExportMatches(name)
    \/ \E s \in Outputs : ThenOutputContains(s)

SpecAll == Init /\ [][NextAll]_vars

(***************************************************************************)
(* The tokenizer on its own: safeSplit applied to every string of at most  *)
(* MaxLen characters and to the command line of the documented example     *)
(***************************************************************************)
Strings(n) == UNION {[1..m -> Chars] : m \in 0..n}

\* a 'a a' a
Example == <<"a", SP, SQ, "a", SP, "a", SQ, SP, "a">>

Inputs == Strings(MaxLen) \cup {Example}

InitSplit ==
    /\ LifecycleInit
    /\ input \in Inputs
    /\ tokens = <<>>
    /\ tokPc = "ready"
    /\ ZoneOff
    /\ SeedOff

Tokenize ==
    /\ tokPc = "ready"
    /\ tokens' = safeSplit(input)
    /\ tokPc' = "done"
    /\ UNCHANGED <<pc, step, cleanupIds, runOutput, provVars, tdVars, input, zoneVars, seedVars>>

NextSplit == Tokenize

SplitSpec == InitSplit /\ [][NextSplit]_vars

(***************************************************************************)
(* The comparison on its own: compareDomains applied to every pair of      *)
(* blobs of at most MaxLines lines, with and without the authority records *)
(***************************************************************************)
InitZone ==
    /\ LifecycleInit
    /\ input = <<>>
    /\ tokens = <<>>
    /\ tokPc = "off"
    /\ expected \in Blobs
    /\ actual \in Blobs
    /\ includeAuth \in BOOLEAN
    /\ mexpected = {}
    /\ mactual = {}
    /\ errors = <<>>
    /\ zfPc = "ready"
    /\ SeedOff

\* errors := compareDomains(expected, actual, includeAuth)
Compare ==
    /\ zfPc = "ready"
    /\ mexpected' = prepareZoneFile(expected, includeAuth)
    /\ mactual' = prepareZoneFile(actual, includeAuth)
    /\ errors' \in compareDomains(expected, actual, includeAuth)
    /\ zfPc' = "done"
    /\ UNCHANGED <<pc, step, cleanupIds, runOutput, provVars, tdVars, tokVars,
                   expected, actual, includeAuth, seedVars>>

NextZone == Compare

ZoneSpec == InitZone /\ [][NextZone]_vars

(***************************************************************************)
(* uniqueReference called by MaxProcs goroutines, each up to MaxCalls      *)
(* times.  seeded.Do(f) is sync.Once.Do: a caller that loads done = 0      *)
(* takes the mutex, looks at done again, calls f when it is still 0 and    *)
(* stores done = 1 before it releases the mutex; every other caller goes   *)
(* on when it has seen done = 1.                                           *)
(***************************************************************************)
\* seeded.Do, first load of done: where the caller goes next
doFast(d) == IF d = 0 THEN "lock" ELSE "draw"

\* a guard that calls f whatever done is
doSlowAgain(d) == "seed"

\* seeded.Do, done read again with the mutex held
doSlow(d) == IF d = 0 THEN "seed" ELSE "unlock"

InitSeed ==
    /\ LifecycleInit
    /\ input = <<>>
    /\ tokens = <<>>
    /\ tokPc = "off"
    /\ ZoneOff
    /\ upc = [p \in Procs |-> "idle"]
    /\ calls = [p \in Procs |-> 0]
    /\ done = 0
    /\ mu = 0
    /\ seeds = 0
    /\ rng = "default"
    /\ drawn = [p \in Procs |-> "none"]

lifeVars == <<pc, step, cleanupIds, runOutput, provVars, tdVars>>

\* goroutine p calls uniqueReference()
Call(p) ==
    /\ upc[p] = "idle"
    /\ calls[p] < MaxCalls
    /\ upc' = [upc EXCEPT ![p] = "do"]
    /\ calls' = [calls EXCEPT ![p] = @ + 1]
    /\ drawn' = [drawn EXCEPT ![p] = "none"]
    /\ UNCHANGED <<lifeVars, tokVars, zoneVars, done, mu, seeds, rng>>

\* line 56, seeded.Do: the first load of done
DoFast(p) ==
    /\ upc[p] = "do"
    /\ upc' = [upc EXCEPT ![p] = doFast(done)]
    /\ UNCHANGED <<lifeVars, tokVars, zoneVars, calls, done, mu, seeds, rng, drawn>>

\* seeded.Do: the mutex is taken when it is free
DoLock(p) ==
    /\ upc[p] = "lock"
    /\ mu = 0
    /\ mu' = p
    /\ upc' = [upc EXCEPT ![p] = "locked"]
    /\ UNCHANGED <<lifeVars, tokVars, zoneVars, calls, done, seeds, rng, drawn>>

\* seeded.Do: done is read again by the holder of the mutex
DoSlow(p) ==
    /\ upc[p] = "locked"
    /\ upc' = [upc EXCEPT ![p] = doSlow(done)]
    /\ UNCHANGED <<lifeVars, tokVars, zoneVars, calls, done, mu, seeds, rng, drawn>>

\* line 57: rand.Seed(time.Now().UnixNano()) is entered
Seed(p) ==
    /\ upc[p] = "seed"
    /\ seeds' = seeds + 1
    /\ rng' = "seeding"
    /\ upc' = [upc EXCEPT ![p] = "seeding"]
    /\ UNCHANGED <<lifeVars, tokVars, zoneVars, calls, done, mu, drawn>>

\* line 57: rand.Seed returns
SeedDone(p) ==
    /\ upc[p] = "seeding"
    /\ rng' = "seeded"
    /\ upc' = [upc EXCEPT ![p] = "store"]
    /\ UNCHANGED <<lifeVars, tokVars, zoneVars, calls, done, mu, seeds, drawn>>

\* seeded.Do: done is stored once f has returned
DoStore(p) ==
    /\ upc[p] = "store"
    /\ done' = 1
    /\ upc' = [upc EXCEPT ![p] = "unlock"]
    /\ UNCHANGED <<lifeVars, tokVars, zoneVars, calls, mu, seeds, rng, drawn>>

\* seeded.Do: the mutex is released and Do returns
DoUnlock(p) ==
    /\ upc[p] = "unlock"
    /\ mu' = 0
    /\ upc' = [upc EXCEPT ![p] = "draw"]
    /\ UNCHANGED <<lifeVars, tokVars, zoneVars, calls, done, seeds, rng, drawn>>

\* line 59: rand.Int() draws from the source as it is, and the call returns
Draw(p) ==
    /\ upc[p] = "draw"
    /\ drawn' = [drawn EXCEPT ![p] = rng]
    /\ upc' = [upc EXCEPT ![p] = "idle"]
    /\ UNCHANGED <<lifeVars, tokVars, zoneVars, calls, done, mu, seeds, rng>>

NextSeed ==
    \/ \E p \in Procs : Call(p)
    \/ \E p \in Procs : DoFast(p)
    \/ \E p \in Procs : DoLock(p)
    \/ \E p \in Procs : DoSlow(p)
    \/ \E p \in Procs : Seed(p)
    \/ \E p \in Procs : SeedDone(p)
    \/ \E p \in Procs : DoStore(p)
    \/ \E p \in Procs : DoUnlock(p)
    \/ \E p \in Procs : Draw(p)

SeedSpec == InitSeed /\ [][NextSeed]_vars

(***************************************************************************)
(* Properties                                                              *)
(***************************************************************************)
Range(seq) == {seq[i] : i \in 1..Len(seq)}

\* the After hook has issued a DeleteHostedZone for handle h (in log)
ZoneDeleteTried(log, h) == \E i \in 1..Len(log) : log[i].id = h /\ log[i].zone # "none"

\* C1: during one teardown cleanupDomain is invoked at most once for each
\* handle: no two invocations of the After hook's loop are for the same id.
C1_NoDoubleCleanup ==
    \A i, j \in 1..Len(tdLog) : i # j => tdLog[i].id # tdLog[j].id

\* C2: a handle never leaves cleanupIds while its zone is still live at the
\* provider unless the teardown has attempted the zone deletion for it.
C2_NoLiveHandleDropped ==
    [][\A h \in Range(cleanupIds) :
         (h \notin Range(cleanupIds') /\ zones'[h].status = "live")
            => ZoneDeleteTried(tdLog', h)]_vars

\* C3: whenever the After hook has returned cleanupIds is empty, and an After
\* hook that runs with no step since the Before hook (so right after the
\* previous hook returned) returns at once: no cleanupDomain invocation, no
\* provider call, the provider unchanged.
C3_TeardownDrains ==
    [][/\ pc' = "idle" => cleanupIds' = <<>>
       /\ (pc = "steps" /\ step.kind = "none" /\ pc' \in {"idle", "teardown"})
            => (pc' = "idle" /\ tdLog' = <<>> /\ UNCHANGED provVars)]_vars

\* C3 witness: the hook has returned after cleaning up a non-empty registry
C3_Witness == pc = "idle" /\ Len(tdLog) > 0 /\ cleanupIds = <<>>

\* C4: in the After hook, whatever the outcome of the record-batch call the
\* zone deletion of the same handle comes next, and whatever the outcome of
\* the zone deletion cleanupDomain is invoked for the next registered handle
\* (after the last one the hook returns); neither call ends the process.
C4_CleanupBestEffort ==
    [][/\ (pc = "teardown" /\ tdStage = "batch")
            => /\ pc' = "teardown" /\ tdStage' = "zone"
               /\ tdIdx' = tdIdx /\ cleanupIds' = cleanupIds
               /\ tdLog'[Len(tdLog')].batch # "none"
       /\ (pc = "teardown" /\ tdStage = "zone")
            => /\ tdLog'[Len(tdLog')].id = cleanupIds[tdIdx]
               /\ tdLog'[Len(tdLog')].zone # "none"
               /\ IF tdIdx < Len(cleanupIds)
                  THEN /\ pc' = "teardown" /\ tdStage' = "list"
                       /\ tdIdx' = tdIdx + 1 /\ cleanupIds' = cleanupIds
                  ELSE pc' = "idle"
       /\ (pc = "teardown" /\ tdStage = "list" /\ pc' = "teardown")
            => tdLog' = Append(tdLog, LogEntry(cleanupIds[tdIdx], "ok"))]_vars

\* C4 witness: the batch and the zone deletion of the first handle failed and
\* cleanupDomain has been invoked for a second, different handle
C4_Witness ==
    /\ pc = "teardown"
    /\ Len(tdLog) = 2
    /\ tdLog[1].batch = "fail" /\ tdLog[1].zone = "fail"
    /\ tdLog[2].id # tdLog[1].id

\* C5: no step of the After hook ends the process.
C5_NoFatalInTeardown == [][pc = "teardown" => pc' # "aborted"]_vars

NoLiveZoneNamed(zs, name) == \A z \in Ids : ~(zs[z].status = "live" /\ zs[z].name = name)

\* C6: in the end-to-end feature, when the command has left no live zone of
\* the name, the "is deleted" step finds none (it reports no failure) and
\* leaves cleanupIds empty, and the After hook that follows returns at once:
\* no cleanupDomain invocation, the provider unchanged.
C6_EndToEnd ==
    [][/\ (pc' = "steps" /\ step'.kind = "deleted" /\ NoLiveZoneNamed(zones', step'.name))
            => (~step'.err /\ cleanupIds' = <<>>)
       /\ (pc = "steps" /\ step.kind = "deleted" /\ ~step.err /\ pc' \in {"idle", "teardown"})
            => (pc' = "idle" /\ tdLog' = <<>> /\ UNCHANGED provVars)]_vars

\* C6 witness: the four steps have run and the lookup of the last found nothing
C6_Witness ==
    /\ pc = "steps"
    /\ step.kind = "deleted" /\ ~step.err
    /\ cleanupIds = <<>>
    /\ \E z \in Ids : zones[z].status = "gone"

\* the transition is a command run by "When I run" that ended with (out, err)
RanWith(out, err) ==
    /\ pc = "steps" /\ pc' = "steps"
    /\ step'.kind = "run" /\ step'.err = err
    /\ \E eff \in Effects : RunCommand(eff, step'.name, err, out)

\* C7 as stated: after every "When I run" step, whatever the exit status,
\* runOutput is the combined output of that invocation.
C7_RunOutputLatest ==
    [][\A out \in Outputs, err \in BOOLEAN : RanWith(out, err) => runOutput' = out]_vars

\* C7 amended: a command that exits zero overwrites runOutput with its
\* output; a command that exits non-zero leaves runOutput as it was.
C7_RunOutputOnSuccess ==
    [][/\ \A out \in Outputs : RanWith(out, FALSE) => runOutput' = out
       /\ \A out \in Outputs : RanWith(out, TRUE) => runOutput' = runOutput]_vars

\* C7 witness: the last command failed and runOutput is an earlier command's output
C7_Witness ==
    /\ pc = "steps"
    /\ step.kind = "run" /\ step.err
    /\ runOutput \in Outputs

\* C8 as stated: at the start of a scenario cleanupIds is empty and runOutput
\* holds no output.
C8_ResetAtBoundary ==
    (pc = "steps" /\ step.kind = "none") => (cleanupIds = <<>> /\ runOutput = "")

\* C8 amended: at the start of a scenario cleanupIds is empty; the After hook
\* and the Before hook leave runOutput as the last step left it.
C8_RegistryResetOnly ==
    [][/\ (pc = "idle" /\ pc' = "steps") => cleanupIds' = <<>>
       /\ (pc \in {"idle", "teardown"} \/ pc' \in {"idle", "teardown"})
            => runOutput' = runOutput]_vars

\* C8 witness: a scenario starts with the output of a command of an earlier one
C8_Witness ==
    /\ pc = "steps" /\ step.kind = "none"
    /\ cleanupIds = <<>>
    /\ runOutput \in Outputs

\* the fragments joined by single spaces
RECURSIVE Join(_)
Join(frags) ==
    IF Len(frags) = 0 THEN <<>>
    ELSE IF Len(frags) = 1 THEN frags[1]
    ELSE frags[1] \o <<SP>> \o Join(Tail(frags))

IsQuote(c) == c = SQ \/ c = DQ

\* The tokenization C9 describes, from fragment k on: outside a span a
\* fragment that starts with a quote opens one, which the same fragment closes
\* when it also ends with that quote; inside a span a fragment that ends with
\* the quote closes it.  The result is <<tokens, q>>, q the quote of the span
\* left open at the end ("" when there is none: the string is well formed).
RECURSIVE QuotedTokens(_, _, _, _, _)
QuotedTokens(frags, k, toks, q, span) ==
    IF k > Len(frags) THEN <<toks, q>>
    ELSE LET f == frags[k] IN
         IF q = ""
         THEN IF Len(f) > 0 /\ IsQuote(f[1])
              THEN IF Len(f) > 1 /\ f[Len(f)] = f[1]
                   THEN QuotedTokens(frags, k + 1, Append(toks, SubSeq(f, 2, Len(f) - 1)), "", <<>>)
                   ELSE QuotedTokens(frags, k + 1, toks, f[1], SubSeq(f, 2, Len(f)))
              ELSE QuotedTokens(frags, k + 1, Append(toks, f), "", <<>>)
         ELSE IF Len(f) > 0 /\ f[Len(f)] = q
              THEN QuotedTokens(frags, k + 1, Append(toks, span \o <<SP>> \o SubSeq(f, 1, Len(f) - 1)), "", <<>>)
              ELSE QuotedTokens(frags, k + 1, toks, q, span \o <<SP>> \o f)

Expected(s) == QuotedTokens(Split(s), 1, <<>>, "", <<>>)

\* C9: for a well-formed string safeSplit returns the unquoted fragments and
\* the quoted spans (spaces kept, quotes stripped), in order.
C9_WellFormedSplit ==
    (tokPc = "done" /\ Expected(input)[2] = "") => tokens = Expected(input)[1]

\* The fragment that opens the span left open at the end of frags (0: none),
\* a span being opened by a fragment that starts with a quote and closed by a
\* later fragment that ends with that quote; scanned from fragment k on.
RECURSIVE OpenSpan(_, _, _, _)
OpenSpan(frags, k, q, at) ==
    IF k > Len(frags) THEN at
    ELSE LET f == frags[k] IN
         IF q = ""
         THEN IF Len(f) > 0 /\ IsQuote(f[1])
              THEN OpenSpan(frags, k + 1, f[1], k)
              ELSE OpenSpan(frags, k + 1, "", 0)
         ELSE IF Len(f) > 0 /\ f[Len(f)] = q
              THEN OpenSpan(frags, k + 1, "", 0)
              ELSE OpenSpan(frags, k + 1, q, at)

Unclosed(s) == OpenSpan(Split(s), 1, "", 0)

\* the tokens of the fragments before fragment k
TokensBefore(s, k) == SplitLoop(SubSeq(Split(s), 1, k - 1), 1, <<>>, "", <<>>)

\* the input from fragment k on
Remainder(s, k) == Join(SubSeq(Split(s), k, Len(Split(s))))

\* C10 as stated: when a quoted span is never closed, the result is the tokens
\* before the opening quote followed by one token holding the remainder of the
\* input from the opening quote on (with or without the quote character).
C10_UnterminatedEmitted ==
    (tokPc = "done" /\ Unclosed(input) > 0)
        => \/ tokens = Append(TokensBefore(input, Unclosed(input)), Remainder(input, Unclosed(input)))
           \/ tokens = Append(TokensBefore(input, Unclosed(input)), Tail(Remainder(input, Unclosed(input))))

\* no fragment before fragment k starts with a quote
Unquoted(s, k) == \A j \in 1..(k - 1) : ~(Len(Split(s)[j]) > 0 /\ IsQuote(Split(s)[j][1]))

\* C10 amended: when a quoted span is never closed, the remainder of the input
\* from the opening quote on is dropped: the result is exactly the tokens
\* before the opening quote (the fragments themselves when none of them is
\* quoted).
C10_UnterminatedDropped ==
    (tokPc = "done" /\ Unclosed(input) > 0)
        => /\ tokens = TokensBefore(input, Unclosed(input))
           /\ Unquoted(input, Unclosed(input))
                => tokens = SubSeq(Split(input), 1, Unclosed(input) - 1)

\* C10 witness: a 'a is tokenized to the single token a
C10_Witness ==
    /\ tokPc = "done"
    /\ input = <<"a", SP, SQ, "a">>
    /\ tokens = << <<"a">> >>

\* C11: the report of compareDomains holds exactly one "missing" message for
\* each line of the expected set that is not in the actual set and one
\* "unexpected" message for each line of the actual set that is not in the
\* expected set, and nothing else, whatever the order of the lines; it is
\* empty exactly when the two sets are equal.
C11_SymmetricDifference ==
    zfPc = "done"
        => /\ Range(errors) = {Missing(l) : l \in mexpected \ mactual}
                                \cup {Unexpected(l) : l \in mactual \ mexpected}
           /\ Len(errors) = Cardinality(mexpected \ mactual) + Cardinality(mactual \ mexpected)
           /\ (errors = <<>>) <=> (mexpected = mactual)

\* C11 witness: the sets {a, b} and {b, c}: a is reported missing and c
\* unexpected
C11_Witness ==
    /\ zfPc = "done"
    /\ mexpected = {ALine, BlankLine}
    /\ mactual = {BlankLine, NSLine}
    /\ Range(errors) = {Missing(ALine), Unexpected(NSLine)}

\* the lines of blob b once its tabs are spaces
NormalLines(b) == SplitLines(Replace(b, TAB, SP))

\* some field of the line that is neither its first nor its last (so a field
\* with a space on either side) is NS or SOA
AuthField(line) ==
    LET fields == Split(line)
    IN \E j \in 2..(Len(fields) - 1) : fields[j] \in {<<"N", "S">>, <<"S", "O", "A">>}

\* C12: of the lines of a blob, prepareZoneFile drops those that begin with
\* $ORIGIN, whatever the flag, and those holding a space-delimited NS or SOA
\* field, exactly when includeAuth is false; every other line is in the result,
\* and nothing else is.  The blob of one $ORIGIN line, one NS line and one A
\* line gives, without authority, the set holding only the A line.
C12_NormalizerFilter ==
    zfPc = "done"
        => /\ LET lines == NormalLines(expected)
              IN /\ \A k \in 1..Len(lines) :
                      lines[k] \in mexpected
                        <=> /\ ~HasPrefixStr(lines[k], OriginDirective)
                            /\ includeAuth \/ ~AuthField(lines[k])
                 /\ mexpected \subseteq Range(lines)
           /\ (expected = ZoneExample /\ ~includeAuth) => mexpected = {ALine}

\* C12 witness: the example blob normalized without authority
C12_Witness ==
    /\ zfPc = "done"
    /\ expected = ZoneExample
    /\ ~includeAuth
    /\ mexpected = {ALine}

\* the blobs are the same but for separators that are a tab in one and a
\* single space in the other
SameButTabs(b1, b2) ==
    /\ Len(b1) = Len(b2)
    /\ \A k \in 1..Len(b1) : b1[k] = b2[k] \/ {b1[k], b2[k]} = {TAB, SP}

\* C13: when the two blobs differ only in separators being tabs in one and
\* single spaces in the other, compareDomains returns the empty report, with
\* either value of includeAuth.
C13_TabsAreSpaces ==
    (zfPc = "done" /\ SameButTabs(expected, actual)) => errors = <<>>

\* C13 witness: two different blobs that hold the same A line, tab-separated
\* in one and space-separated in the other, compare equal
C13_Witness ==
    /\ zfPc = "done"
    /\ expected # actual
    /\ SameButTabs(expected, actual)
    /\ mexpected = {ALine}
    /\ errors = <<>>

\* blob b yields an empty-string line
YieldsBlank(b) ==
    \/ Len(b) = 0
    \/ b[1] = NL
    \/ b[Len(b)] = NL
    \/ \E k \in 1..(Len(b) - 1) : b[k] = NL /\ b[k + 1] = NL

\* C18: a blank line of a blob is an entry of its normalized set; when only
\* the expected blob yields one the report says it is missing, when only the
\* actual blob yields one the report says it is unexpected, and when both or
\* neither do the report has no message about it.
C18_BlankLinesCompared ==
    zfPc = "done"
        => /\ YieldsBlank(expected) <=> <<>> \in mexpected
           /\ YieldsBlank(actual) <=> <<>> \in mactual
           /\ (YieldsBlank(expected) /\ ~YieldsBlank(actual)) <=> Missing(<<>>) \in Range(errors)
           /\ (YieldsBlank(actual) /\ ~YieldsBlank(expected)) <=> Unexpected(<<>>) \in Range(errors)

\* C18 witness: the expected blob ends with a newline, the actual blob is the
\* same without it, and the report is the one message for the empty line
C18_Witness ==
    /\ zfPc = "done"
    /\ expected = ALine \o <<NL>>
    /\ actual = ALine
    /\ errors = <<Missing(<<>>)>>

\* C14: a "Given I have a domain" step has two outcomes.  Either the creation
\* succeeded: one zone of that name is new at the provider and its handle is
\* appended to cleanupIds, whose earlier entries stay as they were.  Or it
\* failed: the process ends at once, no zone has been created (no second
\* attempt) and cleanupIds is as before.
C14_GivenRegisters ==
    [][(pc = "steps" /\ step'.kind = "given")
         => IF pc' = "aborted"
            THEN cleanupIds' = cleanupIds /\ UNCHANGED provVars
            ELSE /\ pc' = "steps"
                 /\ \E h \in Ids :
                      /\ zones[h].status = "none"
                      /\ zones'[h].status = "live" /\ zones'[h].name = step'.name
                      /\ \A z \in Ids \ {h} : zones'[z] = zones[z]
                      /\ cleanupIds' = Append(cleanupIds, h)]_vars

\* C14 witness: a second Given step has succeeded and cleanupIds holds the two
\* handles
C14_Witness ==
    /\ pc = "steps"
    /\ step.kind = "given"
    /\ Len(cleanupIds) = 2
    /\ cleanupIds[1] # cleanupIds[2]
    /\ zones[cleanupIds[2]].status = "live"

\* C16: for one handle cleanupDomain lists the record sets first; the batch
\* it builds holds exactly the listed record sets whose type is neither NS nor
\* SOA; the batch is submitted next, and only when it is not empty; the zone
\* deletion is issued last: after the batch call when there is a batch, right
\* after the listing otherwise, and no provider call changes anything before
\* its turn.
C16_CleanupOrder ==
    [][(pc = "teardown" /\ pc' # "aborted")
         => LET id == cleanupIds[tdIdx]
                n == Len(tdLog)
            IN /\ tdStage = "list"
                    => /\ changes' = ListAllRecordSets(id) \ {"NS", "SOA"}
                       /\ tdStage' = IF changes' = {} THEN "zone" ELSE "batch"
                       /\ tdLog' = Append(tdLog, [id |-> id, list |-> "ok", batch |-> "none", zone |-> "none"])
                       /\ UNCHANGED zones
               /\ tdStage = "batch"
                    => /\ changes # {}
                       /\ tdLog[n].id = id /\ tdLog[n].list = "ok"
                       /\ tdLog[n].batch = "none" /\ tdLog[n].zone = "none"
                       /\ tdLog'[n].batch # "none" /\ tdLog'[n].zone = "none"
                       /\ tdStage' = "zone"
                       /\ zones'[id].status = zones[id].status
                       /\ zones'[id].recs \in {zones[id].recs, zones[id].recs \ changes}
               /\ tdStage = "zone"
                    => /\ tdLog[n].id = id /\ tdLog[n].list = "ok"
                       /\ (tdLog[n].batch = "none") <=> (changes = {})
                       /\ tdLog[n].zone = "none"
                       /\ tdLog'[n].zone # "none"]_vars

\* C16 witness: for one handle the listing, a non-empty batch and the zone
\* deletion have been issued, in this order, and all succeeded
C16_Witness ==
    /\ Len(tdLog) > 0
    /\ tdLog[1].list = "ok" /\ tdLog[1].batch = "ok" /\ tdLog[1].zone = "ok"
    /\ zones[tdLog[1].id].status = "gone"

\* C17: an "is deleted" step whose zone name is still that of a live zone
\* reports a failure and appends the handle of such a zone to cleanupIds; an
\* "is created" step appends the handle of a live zone of its name when there
\* is one, and otherwise reports a failure and leaves cleanupIds as it was.
C17_LookupSteps ==
    [][(pc = "steps" /\ pc' = "steps" /\ step'.kind \in {"created", "deleted"})
         => LET found == {z \in Ids : zones[z].status = "live" /\ zones[z].name = step'.name}
            IN /\ (step'.kind = "deleted" /\ found # {})
                    => (step'.err /\ \E h \in found : cleanupIds' = Append(cleanupIds, h))
               /\ (step'.kind = "created" /\ found # {})
                    => \E h \in found : cleanupIds' = Append(cleanupIds, h)
               /\ (step'.kind = "created" /\ found = {})
                    => (step'.err /\ cleanupIds' = cleanupIds)]_vars

\* C17 witness: an "is deleted" step has found its zone still live, has failed
\* and has put the handle back after the one the Given step registered
C17_Witness ==
    /\ pc = "steps"
    /\ step.kind = "deleted" /\ step.err
    /\ Len(cleanupIds) = 2
    /\ zones[cleanupIds[2]].status = "live"
    /\ zones[cleanupIds[2]].name = step.name

\* C19: the assertion steps ("has N records", "has record", "doesn't have
\* record", "export matches file", "output contains") leave cleanupIds,
\* runOutput and the provider as they were; cleanupIds is changed only by the
\* Given, "is created" and "is deleted" steps and by the After hook, and
\* runOutput only by the "I run" step.
C19_AssertionsFrame ==
    [][/\ (pc = "steps" /\ step'.kind = "assert")
            => (cleanupIds' = cleanupIds /\ runOutput' = runOutput /\ UNCHANGED provVars)
       /\ cleanupIds' # cleanupIds
            => \/ pc = "steps" /\ step'.kind \in {"given", "created", "deleted"}
               \/ pc = "teardown"
       /\ runOutput' # runOutput
            => (pc = "steps" /\ step'.kind = "run")]_vars

\* C19 witness: an assertion step has passed with a handle registered, a
\* command output stored and a record added by the command
C19_Witness ==
    /\ pc = "steps"
    /\ step.kind = "assert" /\ ~step.err
    /\ cleanupIds # <<>>
    /\ runOutput \in Outputs
    /\ \E z \in Ids : zones[z].recs # {}

\* C15: rand.Seed is never called a second time, whatever the number of
\* callers and however their first calls interleave, and every goroutine that
\* is about to draw or has drawn a random value does so from the source as
\* the one completed seeding left it.
C15_SeedOnce ==
    /\ seeds <= 1
    /\ \A p \in Procs :
         /\ upc[p] = "draw" => (seeds = 1 /\ rng = "seeded")
         /\ drawn[p] \in {"none", "seeded"}
         /\ drawn[p] = "seeded" => seeds = 1

\* C15 witness: two goroutines raced on their first calls; goroutine 2 saw
\* done = 0, waited for the mutex while goroutine 1 seeded, and now returns
\* without seeding, goroutine 1 having drawn already
C15_Witness ==
    /\ calls[1] = 1 /\ calls[2] = 1
    /\ drawn[1] = "seeded"
    /\ upc[2] = "unlock" /\ mu = 2
    /\ seeds = 1

====
